---- MODULE Spec2Model ----
(***************************************************************************)
(* Speaker diarization command (transcribe_with_diarization.py).           *)
(*                                                                         *)
(* The command loads the embedding model, reads an audio file, runs voice  *)
(* activity detection, extracts one voiceprint per speech interval,        *)
(* clusters the voiceprints and prints one JSON object.  The external      *)
(* collaborators (torchaudio, the VAD, the embedding model) are modelled   *)
(* by their contract: each call either returns one of a bounded set of     *)
(* values or raises.  The clustering library call is modelled by the       *)
(* algorithm it runs for the parameters the code passes (average linkage,  *)
(* cosine metric, distance threshold, no cluster count).                   *)
(*                                                                         *)
(* Representation.  A time of t ticks is the float64 nearest to t/32000 s  *)
(* (half a sample period at the canonical rate), so that two distinct      *)
(* times can fall on the same sample index.  Voiceprints are integer       *)
(* vectors of integral norm.  Distances are float64 numbers, computed with *)
(* the roundings of the library: significands are kept exactly, in limbs.  *)
(***************************************************************************)
EXTENDS Integers, Sequences, FiniteSets, TLC

\* ------------------------------------------------------------------ bounds
\* Largest number of speech intervals the VAD returns.
MaxSegs == 3
\* Duration of a recording, in ticks.
MaxTick == 4
\* Largest label of a label array handed directly to format_output.
MaxLabel == 2

\* --------------------------------------------------------- program constants
vad_sample_rate == 16000
embedding_sample_rate == 16000
\* threshold=0.7: the literal is the float64 nearest to
\* threshold_num / threshold_den
threshold_num == 7
threshold_den == 10

\* Ticks per second: one tick is half a sample period at the canonical rate.
TicksPerSecond == 2 * embedding_sample_rate

\* ------------------------------------------------- natural numbers in limbs
\* The 53-bit significands of float64 exceed the 32-bit integers of the
\* model checker: they are kept as little-endian sequences of limbs of
\* LimbBits bits, without leading zero limbs (the empty sequence is 0).
LimbBits == 15
LimbBase == 2 ^ LimbBits

Min(a, b) == IF a <= b THEN a ELSE b
Max(a, b) == IF a >= b THEN a ELSE b

RECURSIVE NatOfInt(_)
NatOfInt(k) ==
    IF k = 0 THEN <<>> ELSE <<k % LimbBase>> \o NatOfInt(k \div LimbBase)

RECURSIVE IntOfNat(_)
IntOfNat(a) == IF a = <<>> THEN 0 ELSE Head(a) + LimbBase * IntOfNat(Tail(a))

RECURSIVE NatTrim(_)
NatTrim(a) ==
    IF a # <<>> /\ a[Len(a)] = 0 THEN NatTrim(SubSeq(a, 1, Len(a) - 1)) ELSE a

RECURSIVE NatAddC(_, _, _)
NatAddC(a, b, c) ==
    IF a = <<>> /\ b = <<>> THEN NatOfInt(c)
    ELSE LET t == (IF a = <<>> THEN 0 ELSE Head(a))
                  + (IF b = <<>> THEN 0 ELSE Head(b)) + c
         IN  <<t % LimbBase>>
             \o NatAddC(IF a = <<>> THEN a ELSE Tail(a),
                        IF b = <<>> THEN b ELSE Tail(b), t \div LimbBase)

NatAdd(a, b) == NatAddC(a, b, 0)

\* a - b for a >= b.
RECURSIVE NatSubB(_, _, _)
NatSubB(a, b, borrow) ==
    IF a = <<>> THEN <<>>
    ELSE LET t == Head(a) - (IF b = <<>> THEN 0 ELSE Head(b)) - borrow
         IN  <<IF t < 0 THEN t + LimbBase ELSE t>>
             \o NatSubB(Tail(a), IF b = <<>> THEN b ELSE Tail(b),
                        IF t < 0 THEN 1 ELSE 0)

NatSub(a, b) == NatTrim(NatSubB(a, b, 0))

\* a * k for 0 <= k <= LimbBase.
RECURSIVE NatMulC(_, _, _)
NatMulC(a, k, c) ==
    IF a = <<>> THEN NatOfInt(c)
    ELSE LET t == Head(a) * k + c
         IN  <<t % LimbBase>> \o NatMulC(Tail(a), k, t \div LimbBase)

NatMul(a, k) == IF k = 0 THEN <<>> ELSE NatMulC(a, k, 0)

\* Quotient and remainder of a by k, 0 < k <= LimbBase, from the top limb.
RECURSIVE NatDivLoop(_, _, _, _)
NatDivLoop(a, k, i, r) ==
    IF i > Len(a) THEN [q |-> <<>>, r |-> r]
    ELSE LET t == r * LimbBase + a[Len(a) + 1 - i]
             rest == NatDivLoop(a, k, i + 1, t % k)
         IN  [q |-> Append(rest.q, t \div k), r |-> rest.r]

NatDivMod(a, k) ==
    LET res == NatDivLoop(a, k, 1, 0) IN [q |-> NatTrim(res.q), r |-> res.r]

\* a * 2^s
NatShl(a, s) ==
    IF a = <<>> THEN a
    ELSE [i \in 1..(s \div LimbBits) |-> 0] \o NatMul(a, 2 ^ (s % LimbBits))

\* floor(a / 2^s), and whether bits were shifted out.
NatShr(a, s) ==
    LET w == Min(s \div LimbBits, Len(a))
        dm == NatDivMod(SubSeq(a, w + 1, Len(a)), 2 ^ (s % LimbBits))
    IN  [q |-> dm.q, sticky |-> dm.r # 0 \/ \E i \in 1..w : a[i] # 0]

RECURSIVE BitLen(_)
BitLen(k) == IF k = 0 THEN 0 ELSE 1 + BitLen(k \div 2)

NatBitLen(a) ==
    IF a = <<>> THEN 0 ELSE LimbBits * (Len(a) - 1) + BitLen(a[Len(a)])

NatLess(a, b) ==
    IF Len(a) # Len(b) THEN Len(a) < Len(b)
    ELSE \E i \in 1..Len(a) :
            a[i] < b[i] /\ \A j \in (i + 1)..Len(a) : a[j] = b[j]

NatOdd(a) == a # <<>> /\ a[1] % 2 = 1

\* ----------------------------------------------------------------- float64
\* A non-negative float64 is [m, e]: the number m * 2^e with a significand
\* m of exactly MantissaBits bits, or zero.  Every operation computes the
\* exact result and rounds it to the nearest float64, ties to even.
MantissaBits == 53

FloatZero == [m |-> <<>>, e |-> 0]

\* m * 2^e for a significand that rounding may have carried to one bit more.
Renormalize(m, e) ==
    IF NatBitLen(m) > MantissaBits
    THEN [m |-> NatDivMod(m, 2).q, e |-> e + 1]
    ELSE [m |-> m, e |-> e]

\* q, or q + 1 when the part cut off is more than half a unit of q, or is
\* half a unit and q is odd.
RoundHalfEven(q, half, sticky) ==
    IF half /\ (sticky \/ NatOdd(q)) THEN NatAdd(q, <<1>>) ELSE q

\* The rounding of the number whose leading MantissaBits + 1 bits are top.q.
RoundTop(top, e, sticky) ==
    Renormalize(RoundHalfEven(NatDivMod(top.q, 2).q, NatOdd(top.q),
                              top.sticky \/ sticky), e)

\* The rounding of a number N of len bits.
RoundBits(N, e, sticky, len) ==
    IF len = 0 THEN FloatZero
    ELSE IF len <= MantissaBits
    THEN [m |-> NatShl(N, MantissaBits - len), e |-> e - (MantissaBits - len)]
    ELSE RoundTop(NatShr(N, len - MantissaBits - 1), e + len - MantissaBits,
                  sticky)

\* The float64 nearest to (N + f) * 2^e, where 0 <= f < 1 is non-zero iff
\* sticky.  A caller that passes sticky passes more than MantissaBits bits.
RoundToDouble(N, e, sticky) == RoundBits(N, e, sticky, NatBitLen(N))

\* float(k) for an integer 0 <= k < 2^31
FloatOfInt(k) == RoundToDouble(NatOfInt(k), 0, FALSE)

\* x * float(k), 0 <= k <= LimbBase
FloatMulInt(x, k) == RoundToDouble(NatMul(x.m, k), x.e, FALSE)

\* The rounding of a quotient dm.q with remainder dm.r, in units of 2^e.
RoundQuotient(dm, e) == RoundToDouble(dm.q, e, dm.r # 0)

\* x / float(k), 0 < k <= LimbBase
FloatDivInt(x, k) ==
    RoundQuotient(NatDivMod(NatShl(x.m, 2 * LimbBits), k), x.e - 2 * LimbBits)

\* x + y
FloatAdd(x, y) ==
    IF x.m = <<>> THEN y
    ELSE IF y.m = <<>> THEN x
    ELSE LET e == Min(x.e, y.e)
         IN  RoundToDouble(NatAdd(NatShl(x.m, x.e - e), NatShl(y.m, y.e - e)),
                           e, FALSE)

\* x < y
FloatLess(x, y) ==
    IF y.m = <<>> THEN FALSE
    ELSE IF x.m = <<>> THEN TRUE
    ELSE IF x.e # y.e THEN x.e < y.e
    ELSE NatLess(x.m, y.m)

\* x - y for x >= y
FloatSub(x, y) ==
    IF y.m = <<>> THEN x
    ELSE LET e == Min(x.e, y.e)
         IN  RoundToDouble(NatSub(NatShl(x.m, x.e - e), NatShl(y.m, y.e - e)),
                           e, FALSE)

\* int(x): the integer part
FloatTrunc(x) ==
    IF x.m = <<>> THEN 0
    ELSE IF x.e >= 0 THEN IntOfNat(NatShl(x.m, x.e))
    ELSE IntOfNat(NatShr(x.m, -x.e).q)

\* ------------------------------------------------------------- voiceprints
\* The vectors the embedding model returns.  Each has norm 10; their
\* pairwise cosine distances are 1.0, 0.6, 0.7 (from the first), 0.6, 0.9
\* (from the second) and, between the last two, 1 - 0.42, which in float64
\* is 0.5800000000000001.
Palette ==
    { <<10, 0, 0, 0>>, <<0, 10, 0, 0>>, <<4, 4, 2, 8>>, <<3, 1, 9, 3>> }

RECURSIVE Dot(_, _)
Dot(u, v) == IF u = <<>> THEN 0 ELSE Head(u) * Head(v) + Dot(Tail(u), Tail(v))

\* Euclidean norm of a vector whose norm is an integer.
Norm(u) == LET s == Dot(u, u) IN CHOOSE r \in 0..s : r * r = s

\* metric="cosine": 1 - u.v / (|u| |v|), each operation rounded.
CosineDistance(u, v) ==
    FloatSub(FloatOfInt(1),
             FloatDivInt(FloatOfInt(Dot(u, v)), Norm(u) * Norm(v)))

\* distance_threshold=threshold
distance_threshold == FloatDivInt(FloatOfInt(threshold_num), threshold_den)

\* ------------------------------------------- call results (return or raise)
Ret(v) == [exc |-> "", value |-> v]
Raise(msg) == [exc |-> msg, value |-> <<>>]

\* ---------------------------------------------- linkage (average, cosine)
\* The pairs <<i, j>>, 0 <= i < j < n, in the order of the condensed
\* distance matrix, from <<i, j>> on.
RECURSIVE PairsFrom(_, _, _)
PairsFrom(n, i, j) ==
    IF i >= n - 1 THEN <<>>
    ELSE IF j >= n THEN PairsFrom(n, i + 1, i + 2)
    ELSE <<<<i, j>>>> \o PairsFrom(n, i, j + 1)

\* Position (from 1) of the pair i < j in the condensed matrix of n points.
CondensedIndex(n, i, j) == n * i - (i * (i + 1)) \div 2 + (j - i - 1) + 1

\* The pairwise distances of the rows of X, one per pair of `pairs`.
RECURSIVE PdistFrom(_, _)
PdistFrom(X, pairs) ==
    IF pairs = <<>> THEN <<>>
    ELSE <<CosineDistance(X[Head(pairs)[1] + 1], X[Head(pairs)[2] + 1])>>
         \o PdistFrom(X, Tail(pairs))

\* Condensed matrix of the pairwise distances of the rows of X.
Pdist(X) == PdistFrom(X, PairsFrom(Len(X), 0, 1))

\* Entry of the condensed matrix D of n points for the clusters i # j.
DistAt(D, n, i, j) == D[CondensedIndex(n, Min(i, j), Max(i, j))]

\* linkage="average": distance of cluster i to the union of clusters x and
\* y, (nx * d_xi + ny * d_yi) / (nx + ny), each operation rounded.
AverageUpdate(d_xi, d_yi, nx, ny) ==
    FloatDivInt(FloatAdd(FloatMulInt(d_xi, nx), FloatMulInt(d_yi, ny)), nx + ny)

\* The scan for the nearest neighbour of cluster x, from index i on.  y is
\* the best found so far (-1: none yet); only a strictly smaller distance
\* replaces it, so the lowest index wins among equal distances and the
\* previous chain element wins over all.
RECURSIVE ScanNN(_, _, _, _, _)
ScanNN(i, x, y, D, size) ==
    IF i \notin DOMAIN size THEN y
    ELSE IF size[i] = 0 \/ i = x THEN ScanNN(i + 1, x, y, D, size)
    ELSE IF y = -1 \/ FloatLess(DistAt(D, Cardinality(DOMAIN size), x, i),
                                DistAt(D, Cardinality(DOMAIN size), x, y))
         THEN ScanNN(i + 1, x, i, D, size)
         ELSE ScanNN(i + 1, x, y, D, size)

\* Follows nearest neighbours until the last two elements of the chain are
\* mutual nearest neighbours.
RECURSIVE ChainGrow(_, _, _)
ChainGrow(chain, D, size) ==
    LET x == chain[Len(chain)]
        prev == IF Len(chain) > 1 THEN chain[Len(chain) - 1] ELSE -1
        y == ScanNN(0, x, prev, D, size)
    IN  IF Len(chain) > 1 /\ y = prev THEN chain
        ELSE ChainGrow(Append(chain, y), D, size)

FirstActive(size) ==
    CHOOSE i \in DOMAIN size :
        size[i] > 0 /\ \A j \in DOMAIN size : size[j] > 0 => i <= j

\* The condensed matrix after the merge of x into y: the entries of y with
\* a live cluster i are recomputed, the others are left.
RECURSIVE UpdateDists(_, _, _, _, _, _)
UpdateDists(D, pairs, x, y, size, size1) ==
    IF pairs = <<>> THEN <<>>
    ELSE LET p == Head(pairs)
             n == Cardinality(DOMAIN size)
             i == IF p[1] = y THEN p[2] ELSE p[1]
         IN  <<IF y \in {p[1], p[2]} /\ size1[i] > 0
               THEN AverageUpdate(DistAt(D, n, i, x), DistAt(D, n, i, y),
                                  size[x], size[y])
               ELSE DistAt(D, n, p[1], p[2])>>
             \o UpdateDists(D, Tail(pairs), x, y, size, size1)

\* One merge of the nearest-neighbour chain algorithm.
MergeStep(st) ==
    LET chain0 == IF st.chain = <<>> THEN <<FirstActive(st.size)>> ELSE st.chain
        chain1 == ChainGrow(chain0, st.D, st.size)
        L == Len(chain1)
        n == Cardinality(DOMAIN st.size)
        x == Min(chain1[L], chain1[L - 1])
        y == Max(chain1[L], chain1[L - 1])
        nx == st.size[x]
        ny == st.size[y]
        size1 == [st.size EXCEPT ![x] = 0, ![y] = nx + ny]
        D1 == UpdateDists(st.D, PairsFrom(n, 0, 1), x, y, st.size, size1)
    IN  [D |-> D1, size |-> size1, chain |-> SubSeq(chain1, 1, L - 2),
         Z |-> Append(st.Z, [x |-> x, y |-> y, dist |-> DistAt(st.D, n, x, y)])]

RECURSIVE NNChainLoop(_, _)
NNChainLoop(st, k) == IF k = 0 THEN st ELSE NNChainLoop(MergeStep(st), k - 1)

NNChain(X) ==
    NNChainLoop([D |-> Pdist(X), size |-> [i \in 0..Len(X) - 1 |-> 1],
                 chain |-> <<>>, Z |-> <<>>], Len(X) - 1).Z

\* Stable sort of the merges by distance.
RECURSIVE InsertRow(_, _)
InsertRow(sorted, row) ==
    IF sorted = <<>> THEN <<row>>
    ELSE IF FloatLess(row.dist, Head(sorted).dist) THEN <<row>> \o sorted
    ELSE <<Head(sorted)>> \o InsertRow(Tail(sorted), row)

RECURSIVE SortRows(_)
SortRows(Z) ==
    IF Z = <<>> THEN <<>>
    ELSE InsertRow(SortRows(SubSeq(Z, 1, Len(Z) - 1)), Z[Len(Z)])

\* Renames the two sides of each merge to the ids of the clusters they are in
\* (leaves 0..n-1, the cluster made by the i-th merge n+i), smaller id first.
RECURSIVE LabelRows(_, _, _, _)
LabelRows(Z, i, cid, n) ==
    IF i > Len(Z) THEN <<>>
    ELSE LET xr == cid[Z[i].x]
             yr == cid[Z[i].y]
             cid1 == [p \in DOMAIN cid |->
                        IF cid[p] \in {xr, yr} THEN n + i - 1 ELSE cid[p]]
         IN  <<[left |-> Min(xr, yr), right |-> Max(xr, yr), dist |-> Z[i].dist]>>
             \o LabelRows(Z, i + 1, cid1, n)

\* The merge tree: children_ and distances_ of the fitted estimator.
Linkage(X) ==
    LabelRows(SortRows(NNChain(X)), 1, [p \in 0..Len(X) - 1 |-> p], Len(X))

\* ------------------------------------------------------- cutting the tree
\* heapq on a sequence (position 1 is the top).
RECURSIVE SiftDown(_, _, _, _)
SiftDown(heap, startpos, pos, newitem) ==
    IF pos > startpos /\ newitem < heap[pos \div 2]
    THEN SiftDown([heap EXCEPT ![pos] = heap[pos \div 2]], startpos, pos \div 2, newitem)
    ELSE [heap EXCEPT ![pos] = newitem]

RECURSIVE SiftUp(_, _, _)
SiftUp(heap, pos, newitem) ==
    LET child == 2 * pos
        right == child + 1
    IN  IF child <= Len(heap)
        THEN LET c == IF right <= Len(heap) /\ ~(heap[child] < heap[right])
                      THEN right ELSE child
             IN  SiftUp([heap EXCEPT ![pos] = heap[c]], c, newitem)
        ELSE SiftDown([heap EXCEPT ![pos] = newitem], 1, pos, newitem)

HeapPush(heap, item) == SiftDown(Append(heap, item), 1, Len(heap) + 1, item)

HeapPushPop(heap, item) ==
    IF heap # <<>> /\ heap[1] < item
    THEN SiftUp([heap EXCEPT ![1] = item], 1, item)
    ELSE heap

RECURSIVE Descendants(_, _, _)
Descendants(node, children, n) ==
    IF node < n THEN {node}
    ELSE Descendants(children[node - n + 1].left, children, n)
         \cup Descendants(children[node - n + 1].right, children, n)

\* Splits the cluster of highest id, k times.
RECURSIVE HcCutLoop(_, _, _, _)
HcCutLoop(nodes, k, children, n) ==
    IF k = 0 THEN nodes
    ELSE LET c == children[(-nodes[1]) - n + 1]
         IN  HcCutLoop(HeapPushPop(HeapPush(nodes, -c.left), -c.right),
                       k - 1, children, n)

\* Labels of the n leaves when the tree is cut into n_clusters clusters: the
\* i-th cluster of the heap (from 0) labels its leaves i.
HcCut(n_clusters, children, n) ==
    LET root == children[Len(children)].right + 1
        nodes == HcCutLoop(<<-root>>, n_clusters - 1, children, n)
    IN  [p \in 1..n |->
           CHOOSE i \in 0..Len(nodes) - 1 :
               (p - 1) \in Descendants(-nodes[i + 1], children, n)]

\* distance_threshold: a merge at a distance at or above the threshold is
\* not made.
NClusters(children, thr) ==
    Cardinality({i \in 1..Len(children) : ~FloatLess(children[i].dist, thr)}) + 1

DigitChars == <<"0", "1", "2", "3", "4", "5", "6", "7", "8", "9">>

\* str(k) for a non-negative integer.
RECURSIVE Digits(_)
Digits(k) ==
    IF k < 10 THEN DigitChars[k + 1]
    ELSE Digits(k \div 10) \o DigitChars[(k % 10) + 1]

\* The message of the ValueError the estimator raises for fewer than two
\* samples: the array of the embeddings has shape (1, dimension), or is
\* empty and has one axis.
TooFewSamples(embeddings) ==
    IF Len(embeddings) = 0
    THEN "Expected 2D array, got 1D array instead:\narray=[].\n"
         \o "Reshape your data either using array.reshape(-1, 1) if your data "
         \o "has a single feature or array.reshape(1, -1) if it contains a "
         \o "single sample."
    ELSE "Found array with " \o Digits(Len(embeddings)) \o " sample(s) (shape=("
         \o Digits(Len(embeddings)) \o ", " \o Digits(Len(embeddings[1]))
         \o ")) while a minimum of 2 is required by AgglomerativeClustering."

\* The labels of a tree cut where a merge at a distance equal to the
\* threshold is made too.
CutInclusive(children, n) ==
    HcCut(Cardinality({i \in 1..Len(children) :
                          FloatLess(distance_threshold, children[i].dist)}) + 1,
          children, n)

\* A clusterer that also merges at a distance equal to the threshold.
cluster_embeddings_inclusive(embeddings) ==
    IF Len(embeddings) < 2
    THEN Raise(TooFewSamples(embeddings))
    ELSE Ret(CutInclusive(Linkage(embeddings), Len(embeddings)))

\* labels_ of the estimator fitted with the merge tree `children` of n
\* samples: the tree cut into n_clusters_ clusters.
FitPredict(children, n) ==
    HcCut(NClusters(children, distance_threshold), children, n)

\* A clusterer that gives each voiceprint, in input order, the label of the
\* first cluster whose first member is closer than the threshold.
RECURSIVE LeaderLabels(_, _, _, _)
LeaderLabels(X, i, leaders, labels) ==
    IF i > Len(X) THEN labels
    ELSE LET near == {k \in 1..Len(leaders) :
                         FloatLess(CosineDistance(X[i], X[leaders[k]]),
                                   distance_threshold)}
         IN  IF near = {}
             THEN LeaderLabels(X, i + 1, Append(leaders, i), Append(labels, Len(leaders)))
             ELSE LeaderLabels(X, i + 1, leaders,
                               Append(labels, (CHOOSE k \in near : \A m \in near : k <= m) - 1))

cluster_embeddings_leader(embeddings) ==
    IF Len(embeddings) < 2
    THEN Raise(TooFewSamples(embeddings))
    ELSE Ret(LeaderLabels(embeddings, 1, <<>>, <<>>))

\* AgglomerativeClustering(n_clusters=None, distance_threshold=threshold,
\* metric="cosine", linkage="average").fit_predict(embeddings).  The
\* estimator refuses fewer than two samples.
cluster_embeddings(embeddings) ==
    IF Len(embeddings) < 2
    THEN Raise(TooFewSamples(embeddings))
    ELSE Ret(FitPredict(Linkage(embeddings), Len(embeddings)))

\* --------------------------------------------------------- result assembly
\* f"SPEAKER_{label}"
SpeakerTag(label) == "SPEAKER_" \o Digits(label)

\* The lists a set can be turned into: one per iteration order.
Orderings(S) ==
    {q \in [1..Cardinality(S) -> S] : \A i, j \in DOMAIN q : q[i] = q[j] => i = j}

\* An assembler that pairs the segments with the labels in reverse order.
format_output_reversed(segments, labels) ==
    {[segments |->
        [i \in 1..Min(Len(segments), Len(labels)) |->
            [start |-> segments[i].start, end |-> segments[i].end,
             speaker |-> SpeakerTag(labels[Len(labels) + 1 - i])]],
      speakers |-> sp] :
        sp \in Orderings({SpeakerTag(labels[i]) : i \in 1..Len(labels)})}

\* The values format_output(segments, labels) can return.  zip stops at the
\* shorter of its arguments; the speakers are taken from every label.
format_output(segments, labels) ==
    {[segments |->
        [i \in 1..Min(Len(segments), Len(labels)) |->
            [start |-> segments[i].start, end |-> segments[i].end,
             speaker |-> SpeakerTag(labels[i])]],
      speakers |-> sp] :
        sp \in Orderings({SpeakerTag(labels[i]) : i \in 1..Len(labels)})}

\* ------------------------------------------------- external collaborators
\* Sample rates of the files torchaudio can load.
NativeRates == {vad_sample_rate, 44100}

\* torchaudio.load(file_path): a waveform at the file's rate, or a failure
\* (an unreadable or undecodable file).
torchaudio_load(file_path) ==
    {Ret([rate |-> r]) : r \in NativeRates}
    \cup {Raise("RuntimeError: failed to open file")}

\* resample_audio(waveform, original_rate): the waveform at the canonical
\* rate, or a failure of the resampler.
resample_audio(waveform, original_rate) ==
    {Ret([rate |-> embedding_sample_rate]), Raise("RuntimeError: resample failed")}

\* A speech interval {start, end} in ticks, start < end.
Intervals ==
    {iv \in [start : 0..MaxTick, end : 0..MaxTick] : iv.start < iv.end}

\* The ordered, non-overlapping lists of at most k intervals that start at
\* tick t or later.
RECURSIVE SegListsFrom(_, _)
SegListsFrom(t, k) ==
    IF k = 0 THEN {<<>>}
    ELSE {<<>>} \cup
         UNION {{<<iv>> \o rest : rest \in SegListsFrom(iv.end, k - 1)} :
                    iv \in {w \in Intervals : w.start >= t}}

SegLists == SegListsFrom(0, MaxSegs)

\* get_speech_timestamps(waveform, return_seconds=True): the speech
\* intervals in order, possibly none, or a failure of the detector.
get_speech_timestamps(waveform) ==
    {Ret(s) : s \in SegLists} \cup {Raise("RuntimeError: VAD failed")}

\* The time of t ticks, in seconds, as the VAD returns it.
Seconds(t) == FloatDivInt(FloatOfInt(t), TicksPerSecond)

\* int(seconds * embedding_sample_rate): the product is rounded, then
\* truncated.
ToSample(t) == FloatTrunc(FloatMulInt(Seconds(t), embedding_sample_rate))

\* waveform[:, start_sample:end_sample], kept as its bounds.
Slice(start_sample, end_sample) == [start |-> start_sample, stop |-> end_sample]
SliceLen(s) == IF s.stop > s.start THEN s.stop - s.start ELSE 0

\* get_embedding(segment_waveform): encode_batch returns a voiceprint or
\* fails, whatever the length of the slice.
get_embedding(segment_waveform) ==
    {Ret(v) : v \in Palette} \cup {Raise("RuntimeError: encode_batch failed")}

\* -------------------------------------------------------------- the state
VARIABLES
    pc,             \* position of the command
    argv,           \* sys.argv
    stdout,         \* the JSON objects printed so far
    exit_code,      \* -1 while running, then the exit status
    waveform,       \* the loaded waveform
    vad_segments,   \* the detector's intervals
    embeddings,     \* the voiceprints extracted so far
    speaker_labels, \* the clusterer's labels
    result,         \* what process_audio returns
    exc,            \* the exception in flight ("" when none)
    raised,         \* the stage that raised ("" when none)
    calls,          \* the stages called, in order, by their name in the source
    slices,         \* the slices handed to get_embedding, in order
    perm,           \* a permutation of the voiceprints (direct calls)
    perm_labels     \* the labels of the permuted voiceprints (direct calls)

vars == <<pc, argv, stdout, exit_code, waveform, vad_segments, embeddings,
          speaker_labels, result, exc, raised, calls, slices, perm, perm_labels>>

NoResult == [none |-> TRUE]
NoWaveform == [rate |-> 0]

Argvs ==
    { <<"diarize_local.py">>,
      <<"diarize_local.py", "audio.wav">>,
      <<"diarize_local.py", "audio.wav", "extra">> }

Init ==
    /\ pc = "main"
    /\ argv \in Argvs
    /\ stdout = <<>>
    /\ exit_code = -1
    /\ waveform = NoWaveform
    /\ vad_segments = <<>>
    /\ embeddings = <<>>
    /\ speaker_labels = <<>>
    /\ result = NoResult
    /\ exc = ""
    /\ raised = ""
    /\ calls = <<>>
    /\ slices = <<>>
    /\ perm = <<>>
    /\ perm_labels = <<>>

\* ------------------------------------------------------------- the command
\* A command that exits on a wrong argument count without printing.
Main_silent ==
    /\ pc = "main"
    /\ IF Len(argv) # 2
       THEN /\ exit_code' = 1
            /\ pc' = "done"
       ELSE /\ pc' = "load_models"
            /\ UNCHANGED exit_code
    /\ UNCHANGED <<argv, stdout, waveform, vad_segments, embeddings,
                   speaker_labels, result, exc, raised, calls, slices, perm,
                   perm_labels>>

\* if len(sys.argv) != 2: print the usage error and exit(1)
Main ==
    /\ pc = "main"
    /\ IF Len(argv) # 2
       THEN /\ stdout' = Append(stdout, [error |-> "Usage: python diarize_local.py <audio_file.wav>"])
            /\ exit_code' = 1
            /\ pc' = "done"
       ELSE /\ pc' = "load_models"
            /\ UNCHANGED <<stdout, exit_code>>
    /\ UNCHANGED <<argv, waveform, vad_segments, embeddings, speaker_labels,
                   result, exc, raised, calls, slices, perm, perm_labels>>

\* LocalDiarizer(): the embedding model loads, or the process exits with
\* status 1 from the except clause, printing nothing.
load_models ==
    /\ pc = "load_models"
    /\ calls' = Append(calls, "load_models")
    /\ \/ /\ pc' = "load_audio"
          /\ UNCHANGED <<exit_code, raised>>
       \/ /\ raised' = "load_models"
          /\ exit_code' = 1
          /\ pc' = "done"
    /\ UNCHANGED <<argv, stdout, waveform, vad_segments, embeddings,
                   speaker_labels, result, exc, slices, perm, perm_labels>>

\* The stage raised: control goes to the except clause of process_audio.
Raised(stage, msg) ==
    /\ exc' = msg
    /\ raised' = stage
    /\ pc' = "except"

\* waveform, sample_rate = torchaudio.load(file_path)
LoadAudio ==
    /\ pc = "load_audio"
    /\ calls' = Append(calls, "torchaudio.load")
    /\ \E r \in torchaudio_load(argv[2]) :
          IF r.exc = ""
          THEN /\ waveform' = r.value
               /\ pc' = IF r.value.rate # vad_sample_rate THEN "resample" ELSE "vad"
               /\ UNCHANGED <<exc, raised>>
          ELSE /\ Raised("load", r.exc)
               /\ UNCHANGED waveform
    /\ UNCHANGED <<argv, stdout, exit_code, vad_segments, embeddings,
                   speaker_labels, result, slices, perm, perm_labels>>

\* waveform = self.resample_audio(waveform, sample_rate)
Resample ==
    /\ pc = "resample"
    /\ calls' = Append(calls, "resample_audio")
    /\ \E r \in resample_audio(waveform, waveform.rate) :
          IF r.exc = ""
          THEN /\ waveform' = r.value
               /\ pc' = "vad"
               /\ UNCHANGED <<exc, raised>>
          ELSE /\ Raised("resample", r.exc)
               /\ UNCHANGED waveform
    /\ UNCHANGED <<argv, stdout, exit_code, vad_segments, embeddings,
                   speaker_labels, result, slices, perm, perm_labels>>

\* vad_segments = get_speech_timestamps(...)
Vad ==
    /\ pc = "vad"
    /\ calls' = Append(calls, "get_speech_timestamps")
    /\ \E r \in get_speech_timestamps(waveform) :
          IF r.exc = ""
          THEN /\ vad_segments' = r.value
               /\ pc' = "check_vad"
               /\ UNCHANGED <<exc, raised>>
          ELSE /\ Raised("vad", r.exc)
               /\ UNCHANGED vad_segments
    /\ UNCHANGED <<argv, stdout, exit_code, waveform, embeddings,
                   speaker_labels, result, slices, perm, perm_labels>>

\* A pipeline that goes on to the extraction whatever the detector returned.
CheckVad_no_short_circuit ==
    /\ pc = "check_vad"
    /\ pc' = "extract"
    /\ UNCHANGED <<argv, stdout, exit_code, waveform, vad_segments, embeddings,
                   speaker_labels, result, exc, raised, calls, slices, perm,
                   perm_labels>>

\* if not vad_segments: return {"error": "No speech detected"}
CheckVad ==
    /\ pc = "check_vad"
    /\ IF vad_segments = <<>>
       THEN /\ result' = [error |-> "No speech detected"]
            /\ pc' = "print"
       ELSE /\ pc' = "extract"
            /\ UNCHANGED result
    /\ UNCHANGED <<argv, stdout, exit_code, waveform, vad_segments, embeddings,
                   speaker_labels, exc, raised, calls, slices, perm, perm_labels>>

\* One turn of the loop over vad_segments: slice the waveform and append
\* the voiceprint of the slice.
ExtractStep ==
    /\ pc = "extract"
    /\ Len(embeddings) < Len(vad_segments)
    /\ \E seg \in {vad_segments[Len(embeddings) + 1]} :
       \E start_sample \in {ToSample(seg.start)} :
       \E end_sample \in {ToSample(seg.end)} :
       \E segment_waveform \in {Slice(start_sample, end_sample)} :
          /\ calls' = Append(calls, "get_embedding")
          /\ slices' = Append(slices, segment_waveform)
          /\ \E r \in get_embedding(segment_waveform) :
                IF r.exc = ""
                THEN /\ embeddings' = Append(embeddings, r.value)
                     /\ UNCHANGED <<pc, exc, raised>>
                ELSE /\ Raised("embedding", r.exc)
                     /\ UNCHANGED embeddings
    /\ UNCHANGED <<argv, stdout, exit_code, waveform, vad_segments,
                   speaker_labels, result, perm, perm_labels>>

\* The loop over vad_segments is exhausted.
ExtractDone ==
    /\ pc = "extract"
    /\ Len(embeddings) = Len(vad_segments)
    /\ pc' = "cluster"
    /\ UNCHANGED <<argv, stdout, exit_code, waveform, vad_segments, embeddings,
                   speaker_labels, result, exc, raised, calls, slices, perm,
                   perm_labels>>

\* speaker_labels = self.cluster_embeddings(np.array(embeddings))
Cluster ==
    /\ pc = "cluster"
    /\ calls' = Append(calls, "cluster_embeddings")
    /\ \E r \in {cluster_embeddings(embeddings)} :
          IF r.exc = ""
          THEN /\ speaker_labels' = r.value
               /\ pc' = "format"
               /\ UNCHANGED <<exc, raised>>
          ELSE /\ Raised("cluster", r.exc)
               /\ UNCHANGED speaker_labels
    /\ UNCHANGED <<argv, stdout, exit_code, waveform, vad_segments, embeddings,
                   result, slices, perm, perm_labels>>

\* return self.format_output(vad_segments, speaker_labels)
Format ==
    /\ pc = "format"
    /\ calls' = Append(calls, "format_output")
    /\ \E r \in format_output(vad_segments, speaker_labels) : result' = r
    /\ pc' = "print"
    /\ UNCHANGED <<argv, stdout, exit_code, waveform, vad_segments, embeddings,
                   speaker_labels, exc, raised, slices, perm, perm_labels>>

\* An except clause that returns the error beside an empty segment list.
except_Exception_partial(e) == [error |-> e, segments |-> <<>>, speakers |-> <<>>]

\* except Exception as e: return {"error": str(e)}
except_Exception(e) == [error |-> e]

Except ==
    /\ pc = "except"
    /\ result' = except_Exception(exc)
    /\ exc' = ""
    /\ pc' = "print"
    /\ UNCHANGED <<argv, stdout, exit_code, waveform, vad_segments, embeddings,
                   speaker_labels, raised, calls, slices, perm, perm_labels>>

\* print(json.dumps(result)); the process ends with status 0.
PrintResult ==
    /\ pc = "print"
    /\ stdout' = Append(stdout, result)
    /\ exit_code' = 0
    /\ pc' = "done"
    /\ UNCHANGED <<argv, waveform, vad_segments, embeddings, speaker_labels,
                   result, exc, raised, calls, slices, perm, perm_labels>>

Next ==
    \/ Main
    \/ load_models
    \/ LoadAudio
    \/ Resample
    \/ Vad
    \/ CheckVad
    \/ ExtractStep
    \/ ExtractDone
    \/ Cluster
    \/ Format
    \/ Except
    \/ PrintResult

Spec == Init /\ [][Next]_vars

\* ------------------------------------------- direct calls of format_output
\* Label arrays of any length up to MaxSegs, whatever the segment list.
LabelArrays == UNION {[1..k -> 0..MaxLabel] : k \in 0..MaxSegs}

InitFormat ==
    /\ pc = "format"
    /\ argv = <<"diarize_local.py", "audio.wav">>
    /\ stdout = <<>>
    /\ exit_code = -1
    /\ waveform = NoWaveform
    /\ vad_segments \in SegLists
    /\ embeddings = <<>>
    /\ speaker_labels \in LabelArrays
    /\ result = NoResult
    /\ exc = ""
    /\ raised = ""
    /\ calls = <<>>
    /\ slices = <<>>
    /\ perm = <<>>
    /\ perm_labels = <<>>

SpecFormat == InitFormat /\ [][Format]_vars

\* --------------------------------------- direct calls of cluster_embeddings
\* The lists of voiceprints process_audio can pass: one per interval, at
\* least one.
VoiceprintLists == UNION {[1..k -> Palette] : k \in 1..MaxSegs}

Perms(n) == {p \in [1..n -> 1..n] : \A i, j \in 1..n : p[i] = p[j] => i = j}

\* The list X rearranged: position i holds X[p[i]].
Permute(X, p) == [i \in 1..Len(X) |-> X[p[i]]]

InitCluster ==
    /\ pc = "cluster"
    /\ argv = <<"diarize_local.py", "audio.wav">>
    /\ stdout = <<>>
    /\ exit_code = -1
    /\ waveform = NoWaveform
    /\ vad_segments = <<>>
    /\ embeddings \in VoiceprintLists
    /\ speaker_labels = <<>>
    /\ result = NoResult
    /\ exc = ""
    /\ raised = ""
    /\ calls = <<>>
    /\ slices = <<>>
    /\ perm \in Perms(Len(embeddings))
    /\ perm_labels = <<>>

\* A second call, on the permuted list, once the first has returned.
ClusterPermuted ==
    /\ pc = "format"
    /\ perm_labels = <<>>
    /\ \E r \in {cluster_embeddings(Permute(embeddings, perm))} :
          /\ r.exc = ""
          /\ perm_labels' = r.value
    /\ UNCHANGED <<pc, argv, stdout, exit_code, waveform, vad_segments,
                   embeddings, speaker_labels, result, exc, raised, calls,
                   slices, perm>>

NextCluster ==
    \/ Cluster
    \/ ClusterPermuted

SpecCluster == InitCluster /\ [][NextCluster]_vars

\* ================================================================== claims
Range(f) == {f[i] : i \in DOMAIN f}

HasCall(name) == \E i \in 1..Len(calls) : calls[i] = name

IsSuccess(o) == DOMAIN o = {"segments", "speakers"}
IsError(o) == DOMAIN o = {"error"}

\* Exact fractions [n, d], for the average distances the claims speak of.
RECURSIVE GCD(_, _)
GCD(a, b) == IF b = 0 THEN a ELSE GCD(b, a % b)

\* The fraction n/d in lowest terms (d > 0, n >= 0).
Frac(n, d) == LET g == GCD(n, d) IN [n |-> n \div g, d |-> d \div g]

FracAdd(p, q) == Frac(p.n * q.d + q.n * p.d, p.d * q.d)
FracDiv(p, k) == Frac(p.n, p.d * k)
FracLess(p, q) == p.n * q.d < q.n * p.d

Threshold == Frac(threshold_num, threshold_den)

\* The cosine distance of two voiceprints as an exact fraction.
ExactDistance(u, v) ==
    LET nn == Norm(u) * Norm(v) IN Frac(nn - Dot(u, v), nn)

\* Sum of the distances of the pairs of positions in S.
RECURSIVE SumDist(_, _)
SumDist(X, S) ==
    IF S = {} THEN Frac(0, 1)
    ELSE LET p == CHOOSE q \in S : TRUE
         IN  FracAdd(ExactDistance(X[p[1]], X[p[2]]), SumDist(X, S \ {p}))

\* Average-linkage distance of two sets of positions of X.
AvgDist(X, A, B) == FracDiv(SumDist(X, A \X B), Cardinality(A) * Cardinality(B))

\* The sets of positions that share a label.
ClustersOf(labels) ==
    {{i \in 1..Len(labels) : labels[i] = l} : l \in Range(labels)}

\* C can be built from its members by merges each at an average distance
\* below or equal to the threshold.
RECURSIVE MergedAtOrBelow(_, _)
MergedAtOrBelow(X, C) ==
    \/ Cardinality(C) = 1
    \/ \E A \in (SUBSET C) \ {{}, C} :
          /\ ~FracLess(Threshold, AvgDist(X, A, C \ A))
          /\ MergedAtOrBelow(X, A)
          /\ MergedAtOrBelow(X, C \ A)

PairDist(X, pr) ==
    LET A == CHOOSE a \in pr : TRUE
        B == CHOOSE b \in pr : b # A
    IN  AvgDist(X, A, B)

\* From the partition P on, every merge is of a pair of clusters that is
\* the only one at the minimum average distance, until the closest clusters
\* are farther apart than the threshold; no closest pair is at exactly the
\* threshold.
RECURSIVE TieFreeFrom(_, _)
TieFreeFrom(X, P) ==
    LET pairs == {pr \in SUBSET P : Cardinality(pr) = 2}
        closest == {pr \in pairs :
                       \A o \in pairs : ~FracLess(PairDist(X, o), PairDist(X, pr))}
    IN  IF pairs = {} THEN TRUE
        ELSE LET c == CHOOSE pr \in closest : TRUE
             IN  IF FracLess(Threshold, PairDist(X, c)) THEN TRUE
                 ELSE /\ FracLess(PairDist(X, c), Threshold)
                      /\ Cardinality(closest) = 1
                      /\ TieFreeFrom(X, (P \ c) \cup {UNION c})

TieFree(X) == TieFreeFrom(X, {{i} : i \in 1..Len(X)})

\* The labels of the permuted list, put back in the original order, group
\* the same positions as the labels of the original list.
SamePartition ==
    \A i, j \in 1..Len(embeddings) :
        (perm_labels[i] = perm_labels[j])
            <=> (speaker_labels[perm[i]] = speaker_labels[perm[j]])

BothClustered == pc = "format" /\ perm_labels # <<>>

\* ---------------------------------------------------------------------- C1
\* C1 (as stated): when the process has ended, exactly one JSON object has
\* been printed, whatever happened, a failed model load included.
C1_ExactlyOneObject == pc = "done" => Len(stdout) = 1

\* C1 (amended): at most one JSON object is ever printed, and it is printed
\* by the step that ends the process.  When the process has ended, exactly
\* one well-formed object (an error, or segments and speakers) has been
\* printed unless the model failed to load; then nothing has been printed
\* and the exit status is 1.
C1_OneObjectUnlessModelLoadFails ==
    /\ Len(stdout) <= 1
    /\ pc # "done" => stdout = <<>>
    /\ pc = "done" =>
          IF raised = "load_models"
          THEN stdout = <<>> /\ exit_code = 1
          ELSE /\ Len(stdout) = 1
               /\ IsError(stdout[1]) \/ IsSuccess(stdout[1])

\* C1 witness: a run in which a pipeline stage failed ended with one error
\* object printed.
C1_Witness ==
    /\ pc = "done"
    /\ raised = "embedding"
    /\ Len(stdout) = 1
    /\ IsError(stdout[1])

\* ---------------------------------------------------------------------- C2
\* C2: in every result of format_output, for any segment list and any label
\* array, the speakers are exactly the tags carried by the segments, each
\* once.
C2_SpeakersAreSegmentTags ==
    (pc = "print" /\ IsSuccess(result)) =>
        /\ Range(result.speakers) = {result.segments[i].speaker : i \in DOMAIN result.segments}
        /\ \A i, j \in DOMAIN result.speakers :
               result.speakers[i] = result.speakers[j] => i = j

\* ---------------------------------------------------------------------- C3
\* C3: a successful result returned by process_audio has one segment per VAD
\* interval, in VAD order; the i-th segment has the start and end of the
\* i-th interval and the tag SPEAKER_<label i>, where label i is the cluster
\* label of the voiceprint extracted from the slice of the i-th interval.
C3_SegmentsFollowIntervals ==
    (pc = "print" /\ IsSuccess(result)) =>
        /\ Len(vad_segments) >= 1
        /\ Len(result.segments) = Len(vad_segments)
        /\ Len(embeddings) = Len(vad_segments)
        /\ Len(slices) = Len(vad_segments)
        /\ speaker_labels = cluster_embeddings(embeddings).value
        /\ \A i \in 1..Len(vad_segments) :
              /\ result.segments[i].start = vad_segments[i].start
              /\ result.segments[i].end = vad_segments[i].end
              /\ result.segments[i].speaker = SpeakerTag(speaker_labels[i])
              /\ slices[i] = Slice(ToSample(vad_segments[i].start),
                                   ToSample(vad_segments[i].end))

\* C3 witness: process_audio returned a successful result for three
\* intervals whose first and last segments carry different tags.
C3_Witness ==
    /\ pc = "print"
    /\ IsSuccess(result)
    /\ Len(result.segments) = 3
    /\ result.segments[1].speaker # result.segments[3].speaker

\* ---------------------------------------------------------------------- C4
\* C4: when the VAD detects exactly one interval and its voiceprint is
\* extracted, clustering yields label 0 and the result has exactly one
\* segment and one speaker, SPEAKER_0.
C4_SingleIntervalIsSpeaker0 ==
    (pc = "done" /\ Len(vad_segments) = 1 /\ Len(embeddings) = 1) =>
        /\ speaker_labels = <<0>>
        /\ IsSuccess(result)
        /\ Len(result.segments) = 1
        /\ result.segments[1].speaker = SpeakerTag(0)
        /\ result.speakers = <<SpeakerTag(0)>>

\* ---------------------------------------------------------------------- C5
\* C5: once the VAD has returned no interval, process_audio returns the
\* "No speech detected" result without any exception being raised, and
\* neither get_embedding, cluster_embeddings nor format_output is called.
C5_NoSpeechShortCircuits ==
    (HasCall("get_speech_timestamps") /\ raised # "vad" /\ vad_segments = <<>>) =>
        /\ pc \in {"check_vad", "print", "done"}
        /\ raised = "" /\ exc = ""
        /\ ~HasCall("get_embedding")
        /\ ~HasCall("cluster_embeddings")
        /\ ~HasCall("format_output")
        /\ pc \in {"print", "done"} =>
              IsError(result) /\ result.error = "No speech detected"

\* C5 witness: the run ended after the VAD returned no interval, with the
\* no-speech object printed.
C5_Witness ==
    /\ pc = "done"
    /\ HasCall("get_speech_timestamps")
    /\ raised = ""
    /\ vad_segments = <<>>
    /\ Len(stdout) = 1
    /\ IsError(stdout[1])

\* ---------------------------------------------------------------------- C6
\* C6: a failure raised in a pipeline stage goes to the except clause and
\* nowhere else; process_audio then returns an object whose only key is
\* "error", with a non-empty string, never one that carries segments or
\* speakers, and the command prints that object and ends normally.
C6_StageFailureBecomesErrorResult ==
    raised \in {"load", "resample", "vad", "embedding", "cluster", "format"} =>
        /\ pc \in {"except", "print", "done"}
        /\ pc \in {"print", "done"} =>
              /\ IsError(result)
              /\ result.error \in STRING
              /\ result.error # ""
              /\ exc = ""
        /\ pc = "done" => stdout = <<result>> /\ exit_code = 0

\* C6 witness: the file could not be loaded and the run ended with the error
\* result.
C6_Witness ==
    /\ pc = "done"
    /\ raised = "load"
    /\ IsError(result)

\* ---------------------------------------------------------------------- C7
\* C7: get_embedding is never called on a slice that is empty after the
\* conversion of its interval's start and end to sample indices.
C7_NoEmptySliceEmbedded ==
    \A i \in 1..Len(slices) : SliceLen(slices[i]) > 0

\* ---------------------------------------------------------------------- C8
\* C8: format_output given a segment list and a label array of different
\* lengths returns no result (it fails).
C8_LengthMismatchReturnsNothing ==
    (pc = "print" /\ Len(vad_segments) # Len(speaker_labels)) => ~IsSuccess(result)

\* ---------------------------------------------------------------------- C9
\* C9 (as stated): for every list of voiceprints and every permutation of
\* it, the labels of the permuted list, inverse-permuted, give the same
\* partition as the labels of the original list, ties included.
C9_PermutationInvariant == BothClustered => SamePartition

\* C9 (amended): the same, for the lists in which every merge below the
\* threshold is of the one pair of clusters at the minimum average distance
\* (no tie for the closest pair) and the clusters left are farther apart
\* than the threshold (no pair at exactly the threshold, where the rounding
\* of the running averages decides).
C9_PermutationInvariantWithoutTies ==
    BothClustered => (SamePartition \/ ~TieFree(embeddings))

\* C9 witness: three voiceprints without ties, clustered in an order other
\* than the given one, two of them sharing a label and one apart.
C9_Witness ==
    /\ BothClustered
    /\ TieFree(embeddings)
    /\ Len(embeddings) = 3
    /\ perm # <<1, 2, 3>>
    /\ Cardinality(Range(speaker_labels)) = 2

\* --------------------------------------------------------------------- C10
\* C10 (as stated): the labels are 0..K-1 for K <= N clusters; every cluster
\* is built by merges at an average distance less than or equal to the
\* threshold, and any two clusters left are at a distance greater than the
\* threshold.
C10_MergedIffAtOrBelowThreshold ==
    pc = "format" =>
        /\ Range(speaker_labels) = 0..Cardinality(Range(speaker_labels)) - 1
        /\ \A C \in ClustersOf(speaker_labels) : MergedAtOrBelow(embeddings, C)
        /\ \A A, B \in ClustersOf(speaker_labels) :
              A # B => FracLess(Threshold, AvgDist(embeddings, A, B))

\* C10 (amended): the labels returned for N >= 2 voiceprints are N values,
\* exactly 0..K-1 for K <= N clusters.  A merge is made when the distance
\* the library computes in float64 is strictly below the threshold: every
\* cluster is built by merges at an average cosine distance less than or
\* equal to the threshold, any two clusters left are at an average distance
\* greater than or equal to it, and two voiceprints share a label exactly
\* when their computed distance is strictly below the threshold.  So two
\* voiceprints at distance 0 share a label, and two at distance 1, or at
\* exactly the threshold, do not.
C10_MergedIffBelowThreshold ==
    pc = "format" =>
        /\ Len(speaker_labels) = Len(embeddings)
        /\ Range(speaker_labels) = 0..Cardinality(Range(speaker_labels)) - 1
        /\ Cardinality(Range(speaker_labels)) <= Len(embeddings)
        /\ \A C \in ClustersOf(speaker_labels) : MergedAtOrBelow(embeddings, C)
        /\ \A A, B \in ClustersOf(speaker_labels) :
              A # B => ~FracLess(AvgDist(embeddings, A, B), Threshold)
        /\ Len(embeddings) = 2 =>
              (speaker_labels[1] = speaker_labels[2]
                  <=> FloatLess(CosineDistance(embeddings[1], embeddings[2]),
                                distance_threshold))

\* C10 witness: two voiceprints at a computed distance of exactly the
\* threshold were clustered and got different labels.
C10_Witness ==
    /\ pc = "format"
    /\ Len(embeddings) = 2
    /\ CosineDistance(embeddings[1], embeddings[2]) = distance_threshold
    /\ speaker_labels[1] # speaker_labels[2]
====
